---- MODULE Spec2Model ----
(***************************************************************************)
(* Model of sync_folders.py: the one-way folder synchroniser.              *)
(*                                                                         *)
(* The two directory trees are functions from relative paths (sequences    *)
(* of names) to entries.  sync_folders is modelled statement by statement: *)
(* root creation, Pass 1 (os.walk over source: makedirs, then compare and  *)
(* copy2), Pass 2 (os.walk over replica: remove / rmtree), the epilogue,   *)
(* and main's polling loop.  Directory listings have no defined order, so  *)
(* every loop over a listing picks its next element nondeterministically.  *)
(* I/O failures are injected through the set `faults`, fixed by the        *)
(* environment before the process starts.                                  *)
(***************************************************************************)
EXTENDS Integers, Sequences, FiniteSets, TLC

\* ------------------------------------------------------------------ bounds
Names == {"a", "b"}        \* entry names available in a directory
Contents == 1..2           \* file contents; the code only ever compares them
MaxDepth == 2              \* depth of the deepest entry of an initial tree
MaxEntries == 4            \* entries of both initial trees together, fault-free runs
MaxFaultEntries == 2       \* entries of both initial trees together, runs with faults
MaxFaults == 2             \* injected faults in one run
MaxLiveEntries == 1        \* entries of both initial trees together, liveness runs
MaxPasses == 2             \* the pass counter saturates here

\* ------------------------------------------------------------------- paths
\* A path is a sequence of names relative to a tree root; <<>> is the root.
\* copy2 into an existing directory can create an entry one level below the
\* deepest initial entry, hence MaxDepth + 1.
PathsOfLen(n) == [1..n -> Names]
InitPaths == UNION {PathsOfLen(n) : n \in 1..MaxDepth}
AllPaths == UNION {PathsOfLen(n) : n \in 0..(MaxDepth + 1)}

Parent(p) == SubSeq(p, 1, Len(p) - 1)
Basename(p) == p[Len(p)]
IsPrefix(q, p) == Len(q) <= Len(p) /\ SubSeq(p, 1, Len(q)) = q

\* ----------------------------------------------------------------- entries
Absent == [kind |-> "none", data |-> 0]
Dir == [kind |-> "dir", data |-> 0]
File(c) == [kind |-> "file", data |-> c]

EmptyTree == [p \in AllPaths |-> IF p = <<>> THEN Dir ELSE Absent]
NoTree == [p \in AllPaths |-> Absent]

\* os.path.exists / os.path.isdir / os.path.isfile on a tree.  A path below
\* a file, or deeper than the tree, names nothing.
Exists(t, p) == p \in AllPaths /\ t[p].kind # "none"
IsDir(t, p) == p \in AllPaths /\ t[p].kind = "dir"
IsFile(t, p) == p \in AllPaths /\ t[p].kind = "file"

\* os.scandir split as os.walk does it: names of sub-directories and of files.
ChildDirs(t, d) == {n \in Names : IsDir(t, d \o <<n>>)}
ChildFiles(t, d) == {n \in Names : IsFile(t, d \o <<n>>)}

\* Every existing entry lies in an existing directory.
WellFormed(t) == \A p \in AllPaths : (p # <<>> /\ Exists(t, p)) => IsDir(t, Parent(p))

\* ----------------------------------------------------------- initial trees
Shapes(n) ==
  {S \in SUBSET InitPaths :
     /\ Cardinality(S) <= n
     /\ \A p \in S : Len(p) > 1 => Parent(p) \in S}
Leaves(S) == {p \in S : \A q \in S : q = p \/ ~IsPrefix(p, q)}
LeafKinds == {Dir} \cup {File(c) : c \in Contents}
TreeOf(S, k) ==
  [p \in AllPaths |->
     IF p = <<>> THEN Dir
     ELSE IF p \in DOMAIN k THEN k[p]
     ELSE IF p \in S THEN Dir
     ELSE Absent]
Trees(n) == UNION {{TreeOf(S, k) : k \in [Leaves(S) -> LeafKinds]} : S \in Shapes(n)}
Size(t) == Cardinality({p \in InitPaths : Exists(t, p)})
\* the trees of at most n entries, for every n a run can ask for
MaxAnyEntries == IF MaxEntries > MaxFaultEntries THEN MaxEntries ELSE MaxFaultEntries
TreesUpTo == [n \in 0..(MaxAnyEntries + MaxLiveEntries) |-> Trees(n) \cup {NoTree}]
\* the pairs <<source, replica>> of initial trees with at most n entries together;
\* a missing root is a tree without entries
TreePairs(n) == {pr \in TreesUpTo[n] \X TreesUpTo[n] : Size(pr[1]) + Size(pr[2]) <= n}

\* ------------------------------------------------------------------ faults
\* A fault is <<kind, path>>:
\*   "sread"  the source file at path cannot be opened for reading
\*   "rread"  the replica file at path cannot be opened for reading
\*   "rdel"   the replica entry at path cannot be unlinked / rmdir'ed
\*   "rmk"    the replica directory at path cannot be created (<<>>: the root)
\*   "smk"    the source root cannot be created (path <<>>)
Marked(fs, kind) == {f[2] : f \in {g \in fs : g[1] = kind}}

\* -------------------------------------------------- filesystem primitives
\* os.makedirs(path, exist_ok=True): walks the prefixes of p from length i,
\* creating the missing ones.  Fails (OSError) on a prefix that is a file or
\* that cannot be created; directories made before the failure stay.
RECURSIVE MakedirsFrom(_, _, _, _)
MakedirsFrom(t, p, i, blocked) ==
  IF i > Len(p) THEN [t |-> t, ok |-> TRUE, made |-> <<>>]
  ELSE LET q == SubSeq(p, 1, i) IN
    IF IsDir(t, q) THEN MakedirsFrom(t, p, i + 1, blocked)
    ELSE IF Exists(t, q) \/ q \in blocked THEN [t |-> t, ok |-> FALSE, made |-> <<>>]
    ELSE LET r == MakedirsFrom([t EXCEPT ![q] = Dir], p, i + 1, blocked)
         IN [t |-> r.t, ok |-> r.ok, made |-> <<q>> \o r.made]
Makedirs(t, p, blocked) == MakedirsFrom(t, p, 0, blocked)

\* hashlib.md5 over the file's bytes.  The digest is taken to be injective on
\* contents; the model keeps it apart from the content by tagging it.
NoneDigest == [ok |-> FALSE, hex |-> 0]
Md5Hex(c) == [ok |-> TRUE, hex |-> c]
\* calculate_md5: the digest, or None when open/read raises (unreadable file,
\* a directory, a missing file).
calculate_md5(t, p, unreadable) ==
  IF IsFile(t, p) /\ p \notin unreadable THEN Md5Hex(t[p].data) ELSE NoneDigest

\* shutil.copy2(src, dst): a directory dst means dst/basename(src).  Raises
\* when the source cannot be read, the target is a directory, or the target's
\* directory does not exist.
Copy2Target(r, sp, dp) == IF IsDir(r, dp) THEN dp \o <<Basename(sp)>> ELSE dp
Copy2(s, r, sp, dp, unreadable) ==
  LET dst == Copy2Target(r, sp, dp) IN
  IF \/ ~IsFile(s, sp)
     \/ sp \in unreadable
     \/ dst \notin AllPaths
     \/ IsDir(r, dst)
     \/ ~IsDir(r, Parent(dst))
  THEN [t |-> r, ok |-> FALSE, dst |-> dp]
  ELSE [t |-> [r EXCEPT ![dst] = File(s[sp].data)], ok |-> TRUE, dst |-> dst]

\* os.remove(path)
Remove(t, p, undeletable) ==
  IF IsFile(t, p) /\ p \notin undeletable
  THEN [t |-> [t EXCEPT ![p] = Absent], ok |-> TRUE]
  ELSE [t |-> t, ok |-> FALSE]

\* shutil.rmtree(path): children first, in listing order, then the directory
\* itself; the first failure raises and leaves what was not yet removed.
\* The result is the set of possible outcomes over all listing orders.
RECURSIVE RmChildren(_, _, _, _), RmEntry(_, _, _)
RmEntry(t, p, undeletable) ==
  IF IsDir(t, p)
  THEN LET outs == RmChildren(t, p, ChildDirs(t, p) \cup ChildFiles(t, p), undeletable)
       IN {IF ~o.ok THEN o
           ELSE IF p \in undeletable THEN [t |-> o.t, ok |-> FALSE]
           ELSE [t |-> [o.t EXCEPT ![p] = Absent], ok |-> TRUE] : o \in outs}
  ELSE {Remove(t, p, undeletable)}
RmChildren(t, d, todo, undeletable) ==
  IF todo = {} THEN {[t |-> t, ok |-> TRUE]}
  ELSE UNION {UNION {IF o.ok THEN RmChildren(o.t, d, todo \ {n}, undeletable) ELSE {o}
                     : o \in RmEntry(t, d \o <<n>>, undeletable)} : n \in todo}
Rmtree(t, p, undeletable) == RmEntry(t, p, undeletable)

\* ------------------------------------------------------------ path mapping
\* os.path.relpath(root, base) for a directory inside base: "." for base itself.
RelPath(root) == IF root = <<>> THEN <<".">> ELSE root
\* os.path.join(replica, relative_path if relative_path != '.' else '')
ReplicaRoot(root) == LET rel == RelPath(root) IN IF rel = <<".">> THEN <<>> ELSE rel
\* os.path.join(source, os.path.relpath(root, replica)): the "." stays in the string
SourceRoot(root) == RelPath(root)
\* What the operating system resolves a path string to: "." names the same directory.
RECURSIVE Resolve(_)
Resolve(p) ==
  IF p = <<>> THEN <<>>
  ELSE IF Head(p) = "." THEN Resolve(Tail(p))
  ELSE <<Head(p)>> \o Resolve(Tail(p))

\* ------------------------------------------------------------ command line
\* Strings that int() parses are sequences of characters.
DigitVal == [c \in {"0", "1", "2", "3", "4", "5", "6", "7", "8", "9"} |->
               CASE c = "0" -> 0 [] c = "1" -> 1 [] c = "2" -> 2 [] c = "3" -> 3
                 [] c = "4" -> 4 [] c = "5" -> 5 [] c = "6" -> 6 [] c = "7" -> 7
                 [] c = "8" -> 8 [] c = "9" -> 9]
IsDigits(s) == Len(s) > 0 /\ \A i \in 1..Len(s) : s[i] \in DOMAIN DigitVal
HasSign(s) == Len(s) > 0 /\ s[1] \in {"-", "+"}
\* int(s) succeeds on an optional sign followed by decimal digits
IsIntLiteral(s) == IF HasSign(s) THEN IsDigits(Tail(s)) ELSE IsDigits(s)
RECURSIVE DigitsValue(_)
DigitsValue(s) == IF s = <<>> THEN 0 ELSE 10 * DigitsValue(SubSeq(s, 1, Len(s) - 1)) + DigitVal[s[Len(s)]]
ParseInt(s) ==
  IF HasSign(s) THEN (IF s[1] = "-" THEN 0 - DigitsValue(Tail(s)) ELSE DigitsValue(Tail(s)))
  ELSE DigitsValue(s)

IntervalArgs == {<<"1">>, <<"0">>, <<"-", "1">>, <<"x">>, <<"1", ".", "5">>, <<>>}
Arg(c) == <<c>>
\* sys.argv: argv[1] here is Python's argv[0]
ArgvOf(n, iv) ==
  [i \in 1..n |-> IF i = 4 THEN iv ELSE Arg(CASE i = 1 -> "p" [] i = 2 -> "S" [] i = 3 -> "R" [] OTHER -> "L")]
GoodArgv == ArgvOf(5, <<"1">>)

\* ------------------------------------------------------------------- state
VARIABLES
  argv,          \* sys.argv
  pc,            \* main: "main", "sync" (inside/at the call), "sleep", "exited"
  exitStatus,    \* process exit status, -1 while running
  usage,         \* the usage line has been printed
  interval,      \* sync_interval after int(argv[3])
  src, rep,      \* the two directory trees
  faults,        \* I/O faults in force
  injected,      \* the faults in force when the process started
  ip,            \* sync_folders: "idle", "roots", "pass1", "pass2", "end"
  todoRoots,     \* rest of the list [(source, "source"), (replica, "replica")]
  changes_made,  \* the local flag of sync_folders
  ret,           \* what the last call returned: "None", "True", "False", "raised", "pending"
  log,           \* log records written by the current call
  ops,           \* filesystem mutations applied by the current call
  stack,         \* os.walk: directories still to visit, one set per level
  root,          \* os.walk: the directory being processed
  dirs, files,   \* os.walk: names of the current listing not yet processed
  passNo,        \* number of the current call to sync_folders (saturating)
  src0, rep0     \* the trees as they were when the current call started

vars == <<argv, pc, exitStatus, usage, interval, src, rep, faults, injected, ip, todoRoots,
          changes_made, ret, log, ops, stack, root, dirs, files, passNo, src0, rep0>>

Info(m, p) == [level |-> "info", msg |-> m, path |-> p]
Error(m, p) == [level |-> "error", msg |-> m, path |-> p]
Op(o, side, p) == [op |-> o, side |-> side, path |-> p]
RECURSIVE MkdirOps(_, _)
MkdirOps(side, made) ==
  IF made = <<>> THEN <<>> ELSE <<Op("mkdir", side, Head(made))>> \o MkdirOps(side, Tail(made))

\* ---------------------------------------------------------- initial states
FaultUniverse(s, r) ==
  {<<"sread", p>> : p \in {q \in InitPaths : IsFile(s, q)}}
    \cup {<<"rread", p>> : p \in {q \in InitPaths : IsFile(r, q)}}
    \cup {<<"rdel", p>> : p \in {q \in InitPaths : Exists(r, q)}}
    \cup {<<"rmk", p>> : p \in {q \in InitPaths \cup {<<>>} : IsDir(s, q) /\ ~IsDir(r, q)}}
    \cup {<<"rmk", p>> : p \in {q \in {<<>>} : ~Exists(r, q)}}
    \cup {<<"smk", p>> : p \in {q \in {<<>>} : ~Exists(s, q)}}
FaultSets(s, r) ==
  {F \in SUBSET FaultUniverse(s, r) : Cardinality(F) >= 1 /\ Cardinality(F) <= MaxFaults}

InitLocals ==
  /\ pc = "main" /\ exitStatus = -1 /\ usage = FALSE /\ interval = 0
  /\ ip = "idle" /\ todoRoots = <<>> /\ changes_made = FALSE /\ ret = "pending"
  /\ log = <<>> /\ ops = <<>>
  /\ stack = <<>> /\ root = <<>> /\ dirs = {} /\ files = {}
  /\ passNo = 1 /\ src0 = src /\ rep0 = rep /\ injected = faults

\* fault-free runs over the larger trees
InitClean ==
  /\ argv = GoodArgv
  /\ \E pr \in TreePairs(MaxEntries) : src = pr[1] /\ rep = pr[2]
  /\ faults = {}
\* runs with injected faults over the smaller trees
InitFaulty ==
  /\ argv = GoodArgv
  /\ \E pr \in TreePairs(MaxFaultEntries) : src = pr[1] /\ rep = pr[2]
  /\ faults \in FaultSets(src, rep)
\* every command line, over the smallest trees
InitArgs ==
  /\ argv \in {ArgvOf(n, iv) : n \in 3..6, iv \in IntervalArgs}
  /\ src \in Trees(1)
  /\ rep = EmptyTree
  /\ faults = {}

Init == (InitClean \/ InitFaulty \/ InitArgs) /\ InitLocals

\* -------------------------------------------------------------------- main
\* main(), lines 117-122: argument check, int(argv[3]), setup_logging
MainStart ==
  /\ pc = "main"
  /\ IF Len(argv) < 5
     THEN /\ usage' = TRUE /\ exitStatus' = 1 /\ pc' = "exited"
          /\ UNCHANGED interval
     ELSE IF ~IsIntLiteral(argv[4])
     THEN \* int() raises ValueError, nothing catches it
          /\ exitStatus' = 1 /\ pc' = "exited"
          /\ UNCHANGED <<usage, interval>>
     ELSE /\ interval' = ParseInt(argv[4]) /\ pc' = "sync"
          /\ UNCHANGED <<usage, exitStatus>>
  /\ UNCHANGED <<argv, injected, src, rep, faults, ip, todoRoots, changes_made, ret, log, ops,
                 stack, root, dirs, files, passNo, src0, rep0>>

\* time.sleep(sync_interval), line 129, and the next iteration of `while True`
Sleep ==
  /\ pc = "sleep"
  /\ IF interval < 0
     THEN \* time.sleep raises ValueError outside the try
          /\ pc' = "exited" /\ exitStatus' = 1 /\ UNCHANGED passNo
     ELSE /\ pc' = "sync" /\ UNCHANGED exitStatus
          /\ passNo' = IF passNo < MaxPasses THEN passNo + 1 ELSE passNo
  /\ UNCHANGED <<argv, injected, usage, interval, src, rep, faults, ip, todoRoots, changes_made,
                 ret, log, ops, stack, root, dirs, files, src0, rep0>>

\* ----------------------------------------------------------- sync_folders
PyBool(b) == IF b THEN "True" ELSE "False"

\* `except Exception` of sync_folders (line 106) and of main (line 127): does
\* the clause catch what the pass raises
\* lines 103-104: `except OSError` around one deletion of Pass 2
CaughtAt103_Not == FALSE
CaughtAt103 == TRUE
CaughtAt106_Not == FALSE
CaughtAt106 == TRUE
CaughtAt127 == TRUE

\* line 57: the flag after a root directory has been created
FlagAfterRootCreate_Kept(flag) == flag
FlagAfterRootCreate(flag) == TRUE
\* line 60: the value returned when creating a root directory failed
ReturnAt60_False(flag) == "False"
ReturnAt60(flag) == PyBool(flag)

\* An exception raised inside the second try block, with the log as it is
\* when the exception is raised.
RaiseInPass(lg) ==
  /\ stack' = <<>> /\ dirs' = {} /\ files' = {}
  /\ IF CaughtAt106
     THEN /\ log' = Append(lg, Error("Error during synchronization", <<>>))
          /\ ip' = "end"
          /\ UNCHANGED <<pc, ret, exitStatus>>
     ELSE IF CaughtAt127
     THEN /\ log' = Append(lg, Error("Error during synchronization", <<>>))
          /\ ip' = "idle" /\ pc' = "sleep" /\ ret' = "raised"
          /\ UNCHANGED exitStatus
     ELSE /\ log' = lg
          /\ ip' = "idle" /\ pc' = "exited" /\ ret' = "raised" /\ exitStatus' = 1

\* lines 48-49
BeginSync ==
  /\ pc = "sync" /\ ip = "idle"
  /\ ip' = "roots"
  /\ todoRoots' = <<"source", "replica">>
  /\ changes_made' = FALSE
  /\ ret' = "pending"
  /\ log' = <<Info("Starting synchronization", <<>>)>>
  /\ ops' = <<>>
  /\ src0' = src /\ rep0' = rep
  /\ UNCHANGED <<argv, injected, pc, exitStatus, usage, interval, src, rep, faults,
                 stack, root, dirs, files, passNo>>

\* lines 51-60: one iteration of the loop over the two roots
EnsureRoot ==
  /\ ip = "roots" /\ todoRoots # <<>>
  /\ LET name == Head(todoRoots)
         t == IF name = "source" THEN src ELSE rep
         blocked == Marked(faults, IF name = "source" THEN "smk" ELSE "rmk")
         r == Makedirs(t, <<>>, blocked)
     IN IF Exists(t, <<>>)
        THEN /\ todoRoots' = Tail(todoRoots)
             /\ UNCHANGED <<src, rep, log, ops, changes_made, ret, ip, pc>>
        ELSE IF r.ok
        THEN /\ src' = IF name = "source" THEN r.t ELSE src
             /\ rep' = IF name = "replica" THEN r.t ELSE rep
             /\ ops' = ops \o MkdirOps(name, r.made)
             /\ log' = Append(log, Info("Created " \o name \o " directory", <<>>))
             /\ changes_made' = FlagAfterRootCreate(changes_made)
             /\ todoRoots' = Tail(todoRoots)
             /\ UNCHANGED <<ret, ip, pc>>
        ELSE \* except OSError: log and return changes_made
             /\ log' = Append(log, Error("Failed to create directories", <<>>))
             /\ ret' = ReturnAt60(changes_made)
             /\ ip' = "idle" /\ pc' = "sleep"
             /\ todoRoots' = <<>>
             /\ UNCHANGED <<src, rep, ops, changes_made>>
  /\ UNCHANGED <<argv, injected, exitStatus, usage, interval, faults, stack, root, dirs, files,
                 passNo, src0, rep0>>

\* A walk that lists every directory it has queued from the listing taken
\* at the start of the call, whether the directory is still there or not.
WalkStep_Stale(t) ==
  \E d \in Head(stack) :
    LET rest == IF Head(stack) = {d} THEN Tail(stack)
                ELSE <<Head(stack) \ {d}>> \o Tail(stack)
        old == IF IsDir(t, d) THEN t ELSE rep0
        ds == ChildDirs(old, d)
    IN IF IsDir(old, d)
       THEN /\ root' = d /\ dirs' = ds /\ files' = ChildFiles(old, d)
            /\ stack' = IF ds = {} THEN rest ELSE <<{d \o <<n>> : n \in ds}>> \o rest
       ELSE /\ stack' = rest /\ UNCHANGED <<root, dirs, files>>

\* os.walk: take the next directory off the stack and list tree t there.  A
\* directory that cannot be listed (gone, or not a directory) is skipped.
WalkStep(t) ==
  \E d \in Head(stack) :
    LET rest == IF Head(stack) = {d} THEN Tail(stack)
                ELSE <<Head(stack) \ {d}>> \o Tail(stack)
        ds == ChildDirs(t, d)
    IN IF IsDir(t, d)
       THEN /\ root' = d /\ dirs' = ds /\ files' = ChildFiles(t, d)
            /\ stack' = IF ds = {} THEN rest ELSE <<{d \o <<n>> : n \in ds}>> \o rest
       ELSE /\ stack' = rest /\ UNCHANGED <<root, dirs, files>>

\* line 64: os.walk(source) starts
StartPass1 ==
  /\ ip = "roots" /\ todoRoots = <<>>
  /\ ip' = "pass1"
  /\ stack' = <<{<<>>}>> /\ dirs' = {} /\ files' = {}
  /\ UNCHANGED <<argv, injected, pc, exitStatus, usage, interval, src, rep, faults, todoRoots,
                 changes_made, ret, log, ops, root, passNo, src0, rep0>>

\* line 64: the walk over source yields the next directory
Walk1 ==
  /\ ip = "pass1" /\ dirs = {} /\ files = {} /\ stack # <<>>
  /\ WalkStep(src)
  /\ UNCHANGED <<argv, injected, pc, exitStatus, usage, interval, src, rep, faults, ip, todoRoots,
                 changes_made, ret, log, ops, passNo, src0, rep0>>

\* lines 70-74: one iteration of `for dir_name in dirs`
Mkdir1 ==
  /\ ip = "pass1" /\ dirs # {}
  /\ \E dir_name \in dirs :
       LET r == Makedirs(rep, ReplicaRoot(root) \o <<dir_name>>, Marked(faults, "rmk"))
       IN /\ rep' = r.t
          /\ ops' = ops \o MkdirOps("replica", r.made)
          /\ log' = IF r.ok THEN log
                    ELSE Append(log, Error("Failed to create directory",
                                           ReplicaRoot(root) \o <<dir_name>>))
          /\ dirs' = dirs \ {dir_name}
  /\ UNCHANGED <<argv, injected, pc, exitStatus, usage, interval, src, faults, ip, todoRoots,
                 changes_made, ret, stack, root, files, passNo, src0, rep0>>

\* line 81: the condition under which the file is copied, and what evaluating
\* it logs (the second operand of `or` is evaluated only if the replica file
\* exists)
Md5Errors(t, p, unreadable) ==
  IF calculate_md5(t, p, unreadable) = NoneDigest
  THEN <<Error("Failed to calculate MD5", p)>> ELSE <<>>
NeedsCopy_Readable(s, r, sp, rp, fs) ==
  \/ ~Exists(r, rp)
  \/ /\ calculate_md5(s, sp, Marked(fs, "sread")) # NoneDigest
     /\ calculate_md5(r, rp, Marked(fs, "rread")) # NoneDigest
     /\ calculate_md5(s, sp, Marked(fs, "sread")) # calculate_md5(r, rp, Marked(fs, "rread"))
NeedsCopy(s, r, sp, rp, fs) ==
  \/ ~Exists(r, rp)
  \/ calculate_md5(s, sp, Marked(fs, "sread")) # calculate_md5(r, rp, Marked(fs, "rread"))
CompareLog(s, r, sp, rp, fs) ==
  IF ~Exists(r, rp) THEN <<>>
  ELSE Md5Errors(s, sp, Marked(fs, "sread")) \o Md5Errors(r, rp, Marked(fs, "rread"))

\* line 82: shutil.copy2(source_file, replica_file) reads the path under
\* source and writes the path under replica
CopyArgs_Swapped(source_file, replica_file) ==
  [from |-> [side |-> "replica", path |-> replica_file],
   to |-> [side |-> "source", path |-> source_file]]
CopyArgs(source_file, replica_file) ==
  [from |-> [side |-> "source", path |-> source_file],
   to |-> [side |-> "replica", path |-> replica_file]]

\* lines 77-84: one iteration of `for file_name in files`
Copy1 ==
  /\ ip = "pass1" /\ dirs = {} /\ files # {}
  /\ \E file_name \in files :
       LET source_file == root \o <<file_name>>
           replica_file == ReplicaRoot(root) \o <<file_name>>
           lg == log \o CompareLog(src, rep, source_file, replica_file, faults)
           a == CopyArgs(source_file, replica_file)
           fromTree == IF a.from.side = "source" THEN src ELSE rep
           toTree == IF a.to.side = "source" THEN src ELSE rep
           unreadable == Marked(faults, IF a.from.side = "source" THEN "sread" ELSE "rread")
           c == Copy2(fromTree, toTree, a.from.path, a.to.path, unreadable)
       IN IF ~NeedsCopy(src, rep, source_file, replica_file, faults)
          THEN /\ log' = lg
               /\ files' = files \ {file_name}
               /\ UNCHANGED <<src, rep, faults, ops, changes_made, ip, pc, ret, exitStatus,
                              stack, dirs>>
          ELSE IF c.ok
          THEN /\ IF a.to.side = "replica"
                  THEN rep' = c.t /\ UNCHANGED src
                  ELSE src' = c.t /\ UNCHANGED rep
               \* the copy replaces the file and its permission bits
               /\ faults' = faults \ {<<IF a.to.side = "replica" THEN "rread" ELSE "sread",
                                        c.dst>>}
               /\ ops' = Append(ops, Op("copy", a.to.side, c.dst))
               /\ log' = Append(lg, Info("Copied/Updated file", replica_file))
               /\ changes_made' = TRUE
               /\ files' = files \ {file_name}
               /\ UNCHANGED <<ip, pc, ret, exitStatus, stack, dirs>>
          ELSE /\ RaiseInPass(lg)
               /\ UNCHANGED <<src, rep, faults, ops, changes_made>>
  /\ UNCHANGED <<argv, injected, usage, interval, todoRoots, root, passNo, src0, rep0>>

\* lines 64-84: the `for` over os.walk(source) ends when the last listing has
\* been processed and no directory is left to visit
Pass1Exhausted_Early == dirs = {} /\ files = {}
Pass1Exhausted == dirs = {} /\ files = {} /\ stack = <<>>

\* line 87: os.walk(replica) starts once the walk over source is exhausted
StartPass2 ==
  /\ ip = "pass1" /\ Pass1Exhausted
  /\ ip' = "pass2"
  /\ stack' = <<{<<>>}>>
  /\ UNCHANGED <<argv, injected, pc, exitStatus, usage, interval, src, rep, faults, todoRoots,
                 changes_made, ret, log, ops, root, dirs, files, passNo, src0, rep0>>

\* line 87: the walk over replica yields the next directory
Walk2 ==
  /\ ip = "pass2" /\ dirs = {} /\ files = {} /\ stack # <<>>
  /\ WalkStep(rep)
  /\ UNCHANGED <<argv, injected, pc, exitStatus, usage, interval, src, rep, faults, ip, todoRoots,
                 changes_made, ret, log, ops, passNo, src0, rep0>>

\* lines 91-104: one iteration of `for name in files + dirs`
Prune2 ==
  /\ ip = "pass2" /\ (files # {} \/ dirs # {})
  /\ \E name \in (IF files # {} THEN files ELSE dirs) :
       LET replica_path == root \o <<name>>
           source_path == SourceRoot(root) \o <<name>>
           undeletable == Marked(faults, "rdel")
           continue == /\ files' = files \ {name}
                       /\ dirs' = IF files # {} THEN dirs ELSE dirs \ {name}
                       /\ UNCHANGED <<ip, pc, ret, exitStatus, stack>>
       IN IF Exists(src, Resolve(source_path))
          THEN continue /\ UNCHANGED <<rep, ops, log, changes_made>>
          ELSE \E o \in (IF IsDir(rep, replica_path)
                         THEN Rmtree(rep, replica_path, undeletable)
                         ELSE {Remove(rep, replica_path, undeletable)}) :
                 /\ rep' = o.t
                 /\ ops' = IF o.t = rep THEN ops
                           ELSE Append(ops, Op(IF IsDir(rep, replica_path) THEN "rmtree"
                                               ELSE "remove", "replica", replica_path))
                 /\ changes_made' = (changes_made \/ o.ok)
                 /\ IF o.ok
                    THEN /\ log' = Append(log, Info(IF IsDir(rep, replica_path)
                                                    THEN "Deleted directory"
                                                    ELSE "Deleted file", replica_path))
                         /\ continue
                    ELSE IF CaughtAt103
                    THEN /\ log' = Append(log, Error("Failed to delete", replica_path))
                         /\ continue
                    ELSE RaiseInPass(log)
  /\ UNCHANGED <<argv, injected, usage, interval, src, faults, todoRoots,
                 root, passNo, src0, rep0>>

\* lines 109-113: the epilogue; the function ends without a return statement
EndSync ==
  /\ \/ ip = "end"
     \/ ip = "pass2" /\ dirs = {} /\ files = {} /\ stack = <<>>
  /\ log' = (IF changes_made THEN log ELSE Append(log, Info("No changes made", <<>>)))
              \o <<Info("Synchronization completed", <<>>)>>
  /\ ret' = "None"
  /\ ip' = "idle" /\ pc' = "sleep"
  /\ UNCHANGED <<argv, injected, exitStatus, usage, interval, src, rep, faults, todoRoots,
                 changes_made, ops, stack, root, dirs, files, passNo, src0, rep0>>

Next ==
  \/ MainStart
  \/ BeginSync
  \/ EnsureRoot
  \/ StartPass1
  \/ Walk1
  \/ Mkdir1
  \/ Copy1
  \/ StartPass2
  \/ Walk2
  \/ Prune2
  \/ EndSync
  \/ Sleep

Spec == Init /\ [][Next]_vars

TypeOK ==
  /\ pc \in {"main", "sync", "sleep", "exited"}
  /\ ip \in {"idle", "roots", "pass1", "pass2", "end"}
  /\ ret \in {"None", "True", "False", "raised", "pending"}
  /\ changes_made \in BOOLEAN
  /\ WellFormed(src) /\ WellFormed(rep)
  /\ passNo \in 1..MaxPasses

\* The polling loop runs on: a step that is enabled is eventually taken (the
\* interpreter keeps executing, and time.sleep returns after the interval).
\* Liveness is checked over the smallest trees, with and without faults, and
\* over the intervals that int() accepts.
InitLive ==
  /\ argv \in {ArgvOf(5, iv) : iv \in {<<"1">>, <<"0">>, <<"-", "1">>}}
  /\ \E pr \in TreePairs(MaxLiveEntries) : src = pr[1] /\ rep = pr[2]
  /\ faults \in FaultSets(src, rep) \cup {{}}
  /\ InitLocals
LiveSpec == InitLive /\ [][Next]_vars /\ WF_vars(Next)

\* ------------------------------------------------------- claim vocabulary
\* a call to sync_folders has just returned (or been left by an exception)
Returned == pc = "sleep"
\* the call ran to the epilogue
Completed == Returned /\ ret = "None"
FaultFree == injected = {}
RootsExisted == Exists(src0, <<>>) /\ Exists(rep0, <<>>)
\* no name is a file on one side and a directory on the other
NoTypeConflict(s, r) ==
  \A p \in AllPaths : (Exists(s, p) /\ Exists(r, p)) => s[p].kind = r[p].kind
ErrorCount == Cardinality({i \in 1..Len(log) : log[i].level = "error"})
HasLog(m) == \E i \in 1..Len(log) : log[i].msg = m
HasOp(o) == \E i \in 1..Len(ops) : ops[i].op = o

\* C1 (stated as claimed): after one call with no I/O fault, the replica tree
\* equals the source tree -- same paths, same types, same file contents --
\* whatever the two trees were, type conflicts included.
C1_Convergence == (Completed /\ FaultFree) => rep = src

\* C2 (stated as claimed): a second (or later) call, with no fault and no
\* external change, applies no filesystem mutation and leaves the flag false.
\* Calls that end in an exception are left out, so that the order in which a
\* directory happens to be listed plays no part.
C2_Idempotence ==
  (Completed /\ FaultFree /\ passNo >= 2 /\ ~HasLog("Error during synchronization"))
  => (ops = <<>> /\ ~changes_made)

\* C3 (stated as claimed, without the count of log records): with exactly one
\* unreadable source file (and trees that agree on types), every other source
\* file ends up in the replica with the source's content, and Pass 2 has run:
\* the replica holds no entry that the source lacks.
C3_PartialFailure ==
  \A bad \in InitPaths :
    (Returned /\ injected = {<<"sread", bad>>} /\ RootsExisted
       /\ NoTypeConflict(src0, rep0) /\ passNo = 1)
    => /\ \A p \in AllPaths : (IsFile(src, p) /\ p # bad) => rep[p] = src[p]
       /\ \A p \in AllPaths : Exists(rep, p) => Exists(src, p)

\* C4 (stated as claimed): the call returns a boolean, true exactly when some
\* directory-create, copy or delete was applied (fault-free runs on trees
\* that agree on types).
C4_ReturnsChangeFlag ==
  (Returned /\ FaultFree /\ NoTypeConflict(src0, rep0)) => ret = PyBool(ops # <<>>)

\* C5 (stated as claimed): in Pass 1, a file whose replica counterpart is a file
\* and for which a digest (source, replica or both) cannot be computed is
\* never passed over: the step either copies it or raises from the copy.
DigestFails(n) ==
  /\ IsFile(rep, ReplicaRoot(root) \o <<n>>)
  /\ \/ calculate_md5(src, root \o <<n>>, Marked(faults, "sread")) = NoneDigest
     \/ calculate_md5(rep, ReplicaRoot(root) \o <<n>>, Marked(faults, "rread")) = NoneDigest
C5_DigestFailureCopies ==
  [][\A n \in Names :
       (ip = "pass1" /\ dirs = {} /\ n \in files /\ files' = files \ {n} /\ DigestFails(n))
       => (Len(ops') > Len(ops) \/ ip' # "pass1")]_vars

\* C6 (stated as claimed): after a fault-free pass no replica entry lacks a
\* source counterpart, and every replica entry that has one is still there.
C6_Pruned ==
  (Returned /\ FaultFree /\ RootsExisted)
  => /\ \A p \in AllPaths : Exists(rep, p) => Exists(src, p)
     /\ \A p \in AllPaths : (Exists(rep0, p) /\ Exists(src, p)) => Exists(rep, p)

\* C7 (stated as claimed): on trees that are identical when the call starts,
\* the call applies no mutation and returns False.
C7_NoOpOnIdentical ==
  (Returned /\ FaultFree /\ RootsExisted /\ src0 = rep0) => (ops = <<>> /\ ret = "False")

\* C8: a root that is missing when the call starts is created, the creation
\* sets the flag, and the call goes on through both passes: when it has run to
\* its end both roots exist and the flag is set, and without I/O faults the
\* replica then equals the source.
RootWasMissing == ~Exists(src0, <<>>) \/ ~Exists(rep0, <<>>)
C8_SelfHealingRoots ==
  (Completed /\ RootWasMissing)
  => /\ Exists(src, <<>>) /\ Exists(rep, <<>>)
     /\ changes_made
     /\ HasOp("mkdir")
     /\ FaultFree => rep = src
C8_Witness ==
  /\ Completed /\ FaultFree /\ ~Exists(rep0, <<>>) /\ rep = src
  /\ \E p \in InitPaths : IsFile(src, p) /\ Len(p) = 2

\* C9 (stated as claimed): when creating a root fails the call returns False.
RootCreateFailed == Returned /\ ret \in {"True", "False"}
C9_ReturnsFalse == RootCreateFailed => ret = "False"
\* C9 (amended): when creating a root fails, the error is logged, neither pass
\* runs (the replica is untouched, nothing is copied or deleted), the process
\* stays alive and waits for the next tick, and the value returned is the flag
\* accumulated so far: True when this call created the source root before the
\* replica root failed, False otherwise.
C9_RootFailure ==
  RootCreateFailed
  => /\ log[Len(log)] = Error("Failed to create directories", <<>>)
     /\ ~HasOp("copy") /\ ~HasOp("remove") /\ ~HasOp("rmtree")
     /\ rep = rep0
     /\ exitStatus = -1
     /\ ret = PyBool(~Exists(src0, <<>>) /\ Exists(src, <<>>))
C9_Witness == RootCreateFailed /\ ret = "True" /\ ~Exists(rep, <<>>) /\ Exists(src, <<>>)

\* C10: no error in a pass is fatal.  No exception leaves sync_folders; the
\* process only ever exits before the first pass or in time.sleep on a
\* negative interval; every pass that starts reaches the sleep; and, the
\* interval being valid, the sleep is followed by the start of the next pass.
C10_NoErrorIsFatal ==
  /\ [](ret # "raised")
  /\ [](pc = "exited" => (log = <<>> \/ interval < 0))
  /\ [][ip = "idle" /\ ip' # "idle" => ret \in {"pending", "None", "True", "False"}]_vars
  /\ (ip # "idle") ~> (pc = "sleep")
  /\ (pc = "sleep" /\ interval >= 0) ~> (ip = "roots")
C10_Witness ==
  /\ ip = "roots" /\ passNo = 2
  /\ HasLog("Starting synchronization") /\ Len(log) = 1
  /\ \E p \in InitPaths : <<"sread", p>> \in injected /\ ~Exists(rep, p)

\* C11: within one call, Pass 2 starts only when Pass 1 has run to its end (no
\* listing entry and no directory of the source left to process), and no
\* directory-create or copy is applied after a delete.
IsDelete(o) == o.op \in {"remove", "rmtree"}
C11_PassOrdering ==
  /\ [](\A i, j \in 1..Len(ops) : (i < j /\ IsDelete(ops[i])) => IsDelete(ops[j]))
  /\ [][(ip # "pass2" /\ ip' = "pass2")
        => (ip = "pass1" /\ dirs = {} /\ files = {} /\ stack = <<>>)]_vars
C11_Witness ==
  /\ Returned
  /\ \E i, j \in 1..Len(ops) : i < j /\ ops[i].op = "copy" /\ IsDelete(ops[j])
  /\ \E p \in InitPaths : Len(p) = 2 /\ IsFile(src, p)

\* C12: when deletions of Pass 2 fail (and nothing else does), the pass is not
\* abandoned, every replica entry without a source counterpart that is still
\* there has its own "Failed to delete" record (so every other such entry was
\* deleted), each failure record names an entry that is still there, and the
\* change flag is set exactly when some mutation succeeded.
OnlyDeleteFaults == injected # {} /\ \A f \in injected : f[1] = "rdel"
FailedToDelete(p) == \E i \in 1..Len(log) : log[i] = Error("Failed to delete", p)
SuccessMsgs ==
  {"Created source directory", "Created replica directory", "Copied/Updated file",
   "Deleted directory", "Deleted file"}
C12_DeletionFailure ==
  (Returned /\ OnlyDeleteFaults /\ RootsExisted /\ NoTypeConflict(src0, rep0))
  => /\ ~HasLog("Error during synchronization")
     /\ \A p \in AllPaths \ {<<>>} :
          /\ (Exists(rep, p) /\ ~Exists(src, p)) => FailedToDelete(p)
          /\ FailedToDelete(p) => (Exists(rep, p) /\ ~Exists(src, p))
     /\ changes_made <=> \E i \in 1..Len(log) : log[i].level = "info" /\ log[i].msg \in SuccessMsgs
C12_Witness ==
  /\ Returned /\ OnlyDeleteFaults /\ RootsExisted /\ NoTypeConflict(src0, rep0)
  /\ \E p, q \in AllPaths :
       /\ FailedToDelete(p) /\ Exists(rep, p)
       /\ Exists(rep0, q) /\ ~Exists(rep, q) /\ ~IsPrefix(p, q) /\ ~IsPrefix(q, p)
  /\ changes_made

\* C13 (stated as claimed): in a call with no I/O fault and no type conflict,
\* every mutation applied -- root or subdirectory created, file copied, file
\* or directory deleted -- has an info record that names its path, and "No
\* changes made" is logged only by a call that applied no mutation.
MsgsFor(o) ==
  CASE o.op = "mkdir" -> {"Created source directory", "Created replica directory",
                          "Created directory"}
    [] o.op = "copy" -> {"Copied/Updated file"}
    [] o.op = "remove" -> {"Deleted file"}
    [] o.op = "rmtree" -> {"Deleted directory"}
InfoLogged(o) ==
  \E i \in 1..Len(log) :
    log[i].level = "info" /\ log[i].path = o.path /\ log[i].msg \in MsgsFor(o)
C13_OneLogPerMutation ==
  (Returned /\ FaultFree /\ NoTypeConflict(src0, rep0))
  => /\ \A i \in 1..Len(ops) : InfoLogged(ops[i])
     /\ HasLog("No changes made") => ops = <<>>

\* C14 (stated as claimed): started with fewer than four positional arguments,
\* or with an interval that is not a positive integer (non-numeric, zero or
\* negative), the program prints the usage message and exits with a non-zero
\* status, and sync_folders is never called.
InvalidArgs ==
  \/ Len(argv) < 5
  \/ ~IsIntLiteral(argv[4])
  \/ ParseInt(argv[4]) <= 0
C14_ArgumentValidation ==
  (InvalidArgs /\ pc # "main")
  => (pc = "exited" /\ usage /\ exitStatus > 0 /\ log = <<>> /\ ip = "idle")

\* C15 (stated as claimed): when creating one replica subdirectory q fails in
\* Pass 1 (the only fault), the failure is logged and is local: the pass is
\* not abandoned, every source file outside q is in the replica with the
\* source's content, and Pass 2 has removed every replica entry that has no
\* source counterpart -- also when the source directory q holds files.
MkdirFailedAt(q) ==
  /\ injected = {<<"rmk", q>>} /\ q # <<>>
  /\ \E i \in 1..Len(log) : log[i] = Error("Failed to create directory", q)
C15_MkdirFailureLocal ==
  \A q \in InitPaths :
    (Returned /\ MkdirFailedAt(q) /\ RootsExisted /\ NoTypeConflict(src0, rep0))
    => /\ ~HasLog("Error during synchronization")
       /\ \A p \in AllPaths : (IsFile(src, p) /\ ~IsPrefix(q, p)) => rep[p] = src[p]
       /\ \A p \in AllPaths : Exists(rep, p) => Exists(src, p)

\* C16: once Pass 2 has deleted a directory with rmtree, the walk passes over
\* it without failing: no entry at or below the deleted directory is the
\* target of another delete, delete attempt or error record of that call, the
\* call is not abandoned afterwards, and the removed subtree accounts for
\* exactly one delete operation.
DeleteMsgs == {"Deleted file", "Deleted directory", "Failed to delete"}
C16_VanishedDirectory ==
  \A i \in 1..Len(log) :
    log[i].msg = "Deleted directory"
    => /\ \A j \in 1..Len(log) :
            (j # i /\ log[j].msg \in DeleteMsgs) => ~IsPrefix(log[i].path, log[j].path)
       /\ \A j \in 1..Len(log) : j > i => log[j].msg # "Error during synchronization"
       /\ Cardinality({k \in 1..Len(ops) :
                         IsDelete(ops[k]) /\ IsPrefix(log[i].path, ops[k].path)}) = 1
       /\ ~Exists(rep, log[i].path)
C16_Witness ==
  /\ Returned /\ ret = "None" /\ HasLog("Synchronization completed")
  /\ \E i \in 1..Len(log) :
       /\ log[i].msg = "Deleted directory"
       /\ \E p \in AllPaths :
            /\ p # log[i].path /\ IsPrefix(log[i].path, p)
            /\ IsDir(rep0, p) /\ ~Exists(rep, p)

\* C17: the program never changes the source tree, except that it creates the
\* source root when that root does not exist: every step leaves src as it was
\* or turns a missing source root into an empty directory, and the only
\* operation ever applied on the source side is that creation.
C17_SourceReadOnly ==
  /\ [][src' = src \/ (~Exists(src, <<>>) /\ src' = EmptyTree)]_vars
  /\ [](\A i \in 1..Len(ops) : ops[i].side = "source" => ops[i] = Op("mkdir", "source", <<>>))
C17_Witness ==
  /\ Returned
  /\ HasOp("copy") /\ (HasOp("remove") \/ HasOp("rmtree"))
  /\ \E p \in InitPaths : IsFile(src, p)
  /\ src = src0

\* C18 (stated as claimed): with no I/O fault, Pass 2 deletes a replica entry
\* only if the source has no entry at the corresponding path, and nothing that
\* Pass 1 created or copied in a call is deleted by Pass 2 of the same call,
\* entries directly under the replica root included.
C18_NoLiveDeletion ==
  FaultFree
  => \A j \in 1..Len(ops) :
       IsDelete(ops[j])
       => /\ ~Exists(src, ops[j].path)
          /\ \A i \in 1..Len(ops) :
               (i < j /\ ops[i].op \in {"mkdir", "copy"} /\ ops[i].side = "replica")
               => ~IsPrefix(ops[j].path, ops[i].path)

\* C19 (stated as claimed): with no I/O fault, when the source has a file at p
\* and the replica a directory at p, a call leaves the directory at p, and
\* every such call copies the source file into that directory (to
\* p/basename(p)) in Pass 1, deletes it again in Pass 2 and sets the change flag.
FileOverDir(p) == FaultFree /\ IsFile(src0, p) /\ IsDir(rep0, p)
Inside(p) == p \o <<Basename(p)>>
OnlyConflictAt(p) ==
  \A q \in AllPaths \ {p} : (Exists(src0, q) /\ Exists(rep0, q)) => src0[q].kind = rep0[q].kind
CopiedInside(p) == \E i \in 1..Len(ops) : ops[i] = Op("copy", "replica", Inside(p))
RemovedInside(p) == \E i \in 1..Len(ops) : ops[i] = Op("remove", "replica", Inside(p))
====
